---------------------------- MODULE Spec2Model ----------------------------
(***************************************************************************)
(* A model of react-advanced-table: the computed-field engine              *)
(* (utils/computed.js), the record generator and its localStorage blob     *)
(* (utils/dataGenerator.js), the App container (App.jsx) and the DataTable *)
(* component (components/DataTable.jsx).                                   *)
(*                                                                         *)
(* Instants are whole minutes since 1970-01-01T00:00Z.  The code counts    *)
(* milliseconds; every instant of the model is a whole minute and every    *)
(* zone offset is a whole number of minutes, so a millisecond difference   *)
(* is 60000 times the minute difference and                                *)
(*   floor(ms / (1000*60*60*24)) = floor(minutes / (60*24)).               *)
(* Strings are TLC strings; a template literal is concatenation.  A        *)
(* YYYY-MM-DD string is the record [t |-> "date", y, m, d] so that parsing *)
(* and formatting are computed, not assumed.                               *)
(***************************************************************************)
EXTENDS Integers, Sequences, FiniteSets, TLC

VARIABLES
  now,          \* the wall clock: what new Date() / Date.now() returns
  tz,           \* the browser's local time zone
  storage,      \* localStorage under the key 'tableData': NoItem or a JSON text
  data,         \* App: useState([]) data, an array [ref, items]
  isLoading,    \* App: useState(true) isLoading
  columnOrder,  \* DataTable: useState([...]) columnOrder
  sorting,      \* DataTable: useState([]) sorting
  enrichedData, \* DataTable: the value held by useMemo(..., [rawData])
  memoDep       \* DataTable: the rawData identity the memo was computed for

vars == <<now, tz, storage, data, isLoading, columnOrder, sorting,
          enrichedData, memoDep>>

---------------------------------------------------------------------------
(* Bounds of the model.                                                    *)

\* Longest input collection handed to the engine by the engine harness.
MaxLen == 2

\* Records generateUsers makes per call (the code asks for 500).
GenCount == 2

\* Length, in days, of each window of wall-clock time that is explored.
WindowDays == 3

---------------------------------------------------------------------------
(* Time: the units of computed.js line 29, in minutes.                     *)

MinPerHour == 60
HoursPerDay == 24
MinPerDay == MinPerHour * HoursPerDay

\* Proleptic Gregorian calendar, as Date.UTC / the ISO date-only parser use it.
IsLeap(y) == (y % 4 = 0 /\ y % 100 # 0) \/ y % 400 = 0

DaysInMonth(y, m) ==
  IF m = 2 THEN (IF IsLeap(y) THEN 29 ELSE 28)
  ELSE IF m \in {4, 6, 9, 11} THEN 30 ELSE 31

DaysInYear(y) == IF IsLeap(y) THEN 366 ELSE 365

\* Days from 1970-01-01 to the first of January of year y >= 1970: 365 a year
\* and one more for each leap year passed.
DaysBeforeYear(y) ==
  365 * (y - 1970) + (y - 1969) \div 4 - (y - 1901) \div 100 + (y - 1601) \div 400

RECURSIVE DaysBeforeMonth(_, _)
DaysBeforeMonth(y, m) == IF m <= 1 THEN 0 ELSE DaysBeforeMonth(y, m - 1) + DaysInMonth(y, m - 1)

\* Day number (0 = 1970-01-01) of a calendar date.
DaysFromCivil(y, m, d) == DaysBeforeYear(y) + DaysBeforeMonth(y, m) + (d - 1)

RECURSIVE YearOfDay(_, _)
YearOfDay(z, y) == IF z < DaysInYear(y) THEN <<y, z>> ELSE YearOfDay(z - DaysInYear(y), y + 1)

RECURSIVE MonthOfDay(_, _, _)
MonthOfDay(y, z, m) ==
  IF z < DaysInMonth(y, m) THEN <<m, z>> ELSE MonthOfDay(y, z - DaysInMonth(y, m), m + 1)

\* Calendar date of a day number: the inverse of DaysFromCivil.
CivilFromDays(z) ==
  LET y0 == 1970 + z \div 366   \* a year not after the day's year
      yz == YearOfDay(z - DaysBeforeYear(y0), y0)
      mz == MonthOfDay(yz[1], yz[2], 1)
  IN  [t |-> "date", y |-> yz[1], m |-> mz[1], d |-> mz[2] + 1]

\* The instant YYYY-MM-DDThh:mmZ.
Utc(y, m, d, hh, mm) == DaysFromCivil(y, m, d) * MinPerDay + hh * MinPerHour + mm

\* A date string.
DateStr(y, m, d) == [t |-> "date", y |-> y, m |-> m, d |-> d]

\* The falsy values a registeredDate may hold.
Undefined == [t |-> "undefined"]
Null == [t |-> "null"]
EmptyStr == [t |-> "str", s |-> ""]

\* JavaScript truthiness of a registeredDate value: a non-empty string is truthy.
Truthy(v) == v.t = "date"

---------------------------------------------------------------------------
(* Local time.  The zone rules are those of the year 2023; every instant   *)
(* of the model lies in 2023.                                              *)

Zones == {"UTC", "Europe/Berlin", "America/New_York", "America/Havana"}

\* Standard offset and the instants between which summer time is in force.
ZoneRules ==
  [z \in Zones |->
     CASE z = "UTC" ->
            [std |-> 0, dstFrom |-> 0, dstTo |-> 0]
       [] z = "Europe/Berlin" ->
            [std |-> 1 * MinPerHour,
             dstFrom |-> Utc(2023, 3, 26, 1, 0), dstTo |-> Utc(2023, 10, 29, 1, 0)]
       [] z = "America/New_York" ->
            [std |-> (-5) * MinPerHour,
             dstFrom |-> Utc(2023, 3, 12, 7, 0), dstTo |-> Utc(2023, 11, 5, 6, 0)]
       [] z = "America/Havana" ->
            \* clocks go 00:00 -> 01:00 and 01:00 -> 00:00: a local midnight is skipped
            [std |-> (-5) * MinPerHour,
             dstFrom |-> Utc(2023, 3, 12, 5, 0), dstTo |-> Utc(2023, 11, 5, 5, 0)]]

ZoneRule(z) == ZoneRules[z]

\* Minutes east of UTC at instant t.
UtcOffset(z, t) ==
  LET r == ZoneRule(z)
  IN  IF r.dstFrom <= t /\ t < r.dstTo THEN r.std + MinPerHour ELSE r.std

\* ECMAScript LocalTime(t).
LocalTime(z, t) == t + UtcOffset(z, t)

\* The local calendar day number of instant t.
LocalDay(z, t) == LocalTime(z, t) \div MinPerDay

\* ECMAScript UTC(tlocal): the instant whose local time is tlocal; a repeated
\* local time is the earlier instant, a skipped one is read with the offset
\* in force before the transition.
UtcOfLocal(z, tlocal) ==
  LET r == ZoneRule(z)
      cands == {u \in {tlocal - r.std, tlocal - r.std - MinPerHour} : LocalTime(z, u) = tlocal}
  IN  IF cands # {} THEN CHOOSE u \in cands : \A v \in cands : u <= v
      ELSE tlocal - r.std

\* Date.prototype.setHours(0, 0, 0, 0): the same local day at 00:00 local.
SetHoursMidnight(z, t) == UtcOfLocal(z, LocalDay(z, t) * MinPerDay)

\* new Date("YYYY-MM-DD"): a date-only ISO string is read as UTC midnight.
ParseDate(s) == Utc(s.y, s.m, s.d, 0, 0)

\* Date.prototype.toISOString().split('T')[0]: the UTC calendar date.
ToISODate(t) == CivilFromDays(t \div MinPerDay)

---------------------------------------------------------------------------
(* utils/computed.js                                                       *)

\* computeFullName changed to leave the separator out beside an empty name.
computeFullNameNoArtifact(firstName, lastName) ==
  IF firstName = "" THEN lastName
  ELSE IF lastName = "" THEN firstName
  ELSE firstName \o " " \o lastName

computeFullName(firstName, lastName) == firstName \o " " \o lastName

\* computeDaysSinceRegistration changed to drop its falsy guard: new Date(null)
\* is the epoch, new Date(undefined) and new Date("") are invalid dates whose
\* difference is NaN (written -1 here).
computeDaysSinceRegistrationNoGuard(registeredDate, z, t) ==
  IF registeredDate.t = "null" THEN (SetHoursMidnight(z, t) - SetHoursMidnight(z, 0)) \div MinPerDay
  ELSE IF ~Truthy(registeredDate) THEN -1
  ELSE (SetHoursMidnight(z, t) - SetHoursMidnight(z, ParseDate(registeredDate))) \div MinPerDay

\* computeDaysSinceRegistration changed to leave the two setHours calls out.
computeDaysSinceRegistrationNoReset(registeredDate, z, t) ==
  IF ~Truthy(registeredDate) THEN 0
  ELSE (t - ParseDate(registeredDate)) \div MinPerDay

\* computeDaysSinceRegistration changed to subtract the wrong way round.
computeDaysSinceRegistrationSwapped(registeredDate, z, t) ==
  IF ~Truthy(registeredDate) THEN 0
  ELSE (SetHoursMidnight(z, ParseDate(registeredDate)) - SetHoursMidnight(z, t)) \div MinPerDay

computeDaysSinceRegistration(registeredDate, z, t) ==
  IF ~Truthy(registeredDate) THEN 0
  ELSE LET registered == SetHoursMidnight(z, ParseDate(registeredDate))
           today == SetHoursMidnight(z, t)
           diffTime == today - registered
           diffDays == diffTime \div MinPerDay
       IN  diffDays

\* row.registeredDate: undefined when the record has no such property.
RegisteredDateOf(row) ==
  IF "registeredDate" \in DOMAIN row THEN row.registeredDate ELSE Undefined

\* { ...row, fullName: ..., dsr: ... }: the row's own properties, then the two
\* computed ones.
EnrichRow(row, z, t) ==
  [k \in DOMAIN row \cup {"fullName", "dsr"} |->
     IF k = "fullName" THEN computeFullName(row.firstName, row.lastName)
     ELSE IF k = "dsr" THEN computeDaysSinceRegistration(RegisteredDateOf(row), z, t)
     ELSE row[k]]

\* enrichDataWithComputedFields changed to return the rows last to first.
enrichDataReversed(rawData, z, t) ==
  [i \in 1..Len(rawData) |-> EnrichRow(rawData[Len(rawData) + 1 - i], z, t)]

\* rawData.map(row => ...): a new array, one element per input element, in order.
enrichDataWithComputedFields(rawData, z, t) ==
  [i \in 1..Len(rawData) |-> EnrichRow(rawData[i], z, t)]

\* EnrichCall changed to assign the computed fields into the caller's rows
\* (Object.assign(row, {...})) instead of building new objects.
EnrichCallInPlace(rawData, store, z, t) ==
  [ret |-> enrichDataWithComputedFields(rawData, z, t),
   rawData |-> enrichDataWithComputedFields(rawData, z, t),
   store |-> store]

\* One call of enrichDataWithComputedFields, with everything it could touch:
\* what it returns, the caller's array after the call and the stored text
\* after the call.  map() and the spread build new objects; nothing is
\* assigned into a row and localStorage is not used.
EnrichCall(rawData, store, z, t) ==
  [ret |-> enrichDataWithComputedFields(rawData, z, t),
   rawData |-> rawData,
   store |-> store]

---------------------------------------------------------------------------
(* utils/dataGenerator.js                                                  *)

\* What faker returns for one record: how far back in [now - 3 years, now]
\* the registration instant lies, the uuid and the person.
ThreeYears == 3 * 365 * HoursPerDay * MinPerHour

FakerDraws ==
  { draw \in
  { [back |-> 0, uuid |-> "3f2a", first |-> "John", last |-> "Doe",
     email |-> "john.doe@example.com", city |-> "New York"],
    [back |-> 60 * MinPerDay, uuid |-> "9c41", first |-> "Mary Ann", last |-> "O'Neil",
     email |-> "Mary_ONeil@example.org", city |-> "Port Elsa"] } :
    0 <= draw.back /\ draw.back <= ThreeYears }

generateUser(draw, i, t) ==
  LET registeredDate == t - draw.back
  IN  [id |-> draw.uuid \o "-" \o ToString(i),
       firstName |-> draw.first,
       lastName |-> draw.last,
       email |-> draw.email,
       city |-> draw.city,
       registeredDate |-> ToISODate(registeredDate)]

\* Array.from({ length: count }, generateUser), for one sequence of faker draws.
generateUsers(draws, t) == [i \in 1..Len(draws) |-> generateUser(draws[i], i, t)]

\* The sequences of length n over the set S.
SeqsOfLen(S, n) == [1..n -> S]

\* Every collection generateUsers(count) can return at instant t.
GeneratedCollections(count, t) == { generateUsers(draws, t) : draws \in SeqsOfLen(FakerDraws, count) }

\* Property order of an object literal: generateUser's, then the engine's.
FieldOrder == <<"id", "firstName", "lastName", "email", "city", "registeredDate", "fullName", "dsr">>

\* localStorage.getItem of a key that was never set, or was removed.
NoItem == [text |-> "none"]

\* JSON.stringify of an array of records: each record is written as its
\* properties, in order, as key/value pairs.
JSONstringify(items) ==
  [text |-> "array",
   elems |-> [i \in 1..Len(items) |->
                LET keys == SelectSeq(FieldOrder, LAMBDA k : k \in DOMAIN items[i])
                IN  [j \in 1..Len(keys) |-> <<keys[j], items[i][keys[j]]>>]]]

\* JSON.parse of such a text: a new array of new objects.
JSONparse(text) ==
  [i \in 1..Len(text.elems) |->
     LET pairs == text.elems[i]
     IN  [k \in {pairs[j][1] : j \in 1..Len(pairs)} |->
            \* a repeated key keeps its last value
            pairs[CHOOSE j \in 1..Len(pairs) :
                    pairs[j][1] = k /\ \A h \in (j + 1)..Len(pairs) : pairs[h][1] # k][2]]]

---------------------------------------------------------------------------
(* The wall clock.                                                         *)

\* The clock is read every six hours.
ClockStep == 6 * MinPerHour

\* Where each explored window of time starts: the weekends of the 2023
\* clock changes (12 March in America, 29 October in Europe) and the date of
\* the README's example.
WindowStarts == {Utc(2023, 3, 11, 1, 30), Utc(2023, 10, 28, 1, 30), Utc(2023, 12, 10, 1, 30)}

InWindow(t) == \E w \in WindowStarts : w <= t /\ t <= w + WindowDays * MinPerDay

---------------------------------------------------------------------------
(* The engine on its own: a caller that holds a collection, calls          *)
(* enrichDataWithComputedFields on it, and calls it again whenever the     *)
(* clock has advanced.                                                     *)

Person(id, first, last) ==
  [id |-> id, firstName |-> first, lastName |-> last,
   email |-> id \o "@example.com", city |-> "Springfield"]

WithDate(row, date) ==
  [k \in DOMAIN row \cup {"registeredDate"} |-> IF k = "registeredDate" THEN date ELSE row[k]]

\* Records with a registration date around each window, long before it and
\* after it, and records whose registration date is falsy or missing.
DatedRecords ==
  { WithDate(Person("r1", "John", "Doe"), DateStr(2023, 5, 15)),
    WithDate(Person("r2", "Ada", "Lovelace"), DateStr(2023, 1, 15)),
    WithDate(Person("r3", "ada", "LOVELACE"), DateStr(2023, 7, 1)),
    WithDate(Person("r4", " Mary  Ann ", "O'Neil "), DateStr(2023, 3, 11)),
    WithDate(Person("r5", "Li", ""), DateStr(2023, 3, 12)),
    WithDate(Person("r6", "", "Berg"), DateStr(2023, 3, 13)),
    WithDate(Person("r7", "", ""), DateStr(2023, 10, 29)),
    WithDate(Person("r8", "Zoe", "van der Berg"), DateStr(2023, 10, 30)),
    WithDate(Person("r9", "Bo", "Li"), DateStr(2023, 12, 11)),
    WithDate(Person("r10", "Cy", "Young"), DateStr(2023, 12, 15)) }

FalsyRecords ==
  { WithDate(Person("f1", "Ann", "Lee"), EmptyStr),
    WithDate(Person("f2", "", "Lee"), Null),
    Person("f3", "Ann", "") }

\* Records that make up the longer collections.
MixRecords ==
  { WithDate(Person("r1", "John", "Doe"), DateStr(2023, 5, 15)),
    WithDate(Person("f1", "Ann", "Lee"), EmptyStr),
    WithDate(Person("r9", "Bo", "Li"), DateStr(2023, 12, 11)) }

InputCollections ==
  {<<>>} \cup SeqsOfLen(DatedRecords \cup FalsyRecords, 1)
         \cup UNION { SeqsOfLen(MixRecords, n) : n \in 2..MaxLen }

InitialColumnOrder ==
  <<"id", "firstName", "lastName", "fullName", "email", "city", "registeredDate", "dsr">>

EngineInit ==
  /\ now \in WindowStarts
  /\ tz \in Zones
  /\ \E items \in InputCollections \cup GeneratedCollections(1, now) :
     \E store \in {NoItem, JSONstringify(<<WithDate(Person("r1", "John", "Doe"), DateStr(2023, 5, 15))>>)} :
       LET call == EnrichCall(items, store, tz, now)
       IN  /\ data = [ref |-> "a1", items |-> call.rawData]
           /\ enrichedData = call.ret
           /\ storage = call.store
  /\ isLoading = FALSE
  /\ columnOrder = InitialColumnOrder
  /\ sorting = <<>>
  /\ memoDep = "a1"

\* The clock advances and the caller enriches its collection again.
EnrichAgain ==
  /\ InWindow(now + ClockStep)
  /\ now' = now + ClockStep
  /\ LET call == EnrichCall(data.items, storage, tz, now')
     IN  /\ enrichedData' = call.ret
         /\ data' = [data EXCEPT !.items = call.rawData]
         /\ storage' = call.store
  /\ UNCHANGED <<tz, isLoading, columnOrder, sorting, memoDep>>

EngineNext == EnrichAgain

EngineSpec == EngineInit /\ [][EngineNext]_vars

---------------------------------------------------------------------------
(* App.jsx and components/DataTable.jsx                                    *)

\* How localStorage behaves during one handler: it works, setItem throws
\* (quota exceeded), or every access throws (storage is blocked).
StorageModes == {"ok", "quota", "blocked"}

\* Array identities.  A new array differs from every array still in use.
FreshRef(live) == CHOOSE r \in {"a1", "a2", "a3"} : r \notin live

\* data.length for the value JSON.parse gives for a stored text; -1 stands
\* for undefined, which is not > 0 either.
ParsedLength(store) ==
  IF store.text = "array" THEN Len(store.elems)
  ELSE IF store.text = "string" THEN Len(store.value)
  ELSE IF store.text = "object" /\ "length" \in DOMAIN store.props THEN store.props.length
  ELSE -1

\* The value JSON.parse gives for a stored text that parses to a truthy value.
ParsedValue(store) ==
  IF store.text = "array" THEN JSONparse(store)
  ELSE IF store.text = "object" THEN store.props
  ELSE store.value

\* loadOrGenerateData changed to generate and store a new collection on
\* every call.
loadOrGenerateDataIgnoresStored(store, mode, draws, t) ==
  [ret |-> generateUsers(draws, t), isArray |-> TRUE,
   store |-> IF mode = "ok" THEN JSONstringify(generateUsers(draws, t)) ELSE store]

\* loadOrGenerateData(count), with the faker draws its generateUsers call
\* makes.  Returns the collection and the stored text it leaves behind.
\* getItem gives null for a missing key and may give ""; JSON.parse throws
\* on invalid text and the catch falls through to the generation, as a
\* falsy parsed value or one whose length is not > 0 does.  isArray records
\* whether the returned value is an array.
loadOrGenerateData(store, mode, draws, t) ==
  LET usable == /\ mode # "blocked"
                /\ store.text \in {"array", "string", "object"}
                /\ ParsedLength(store) > 0
      generated == generateUsers(draws, t)
  IN  IF usable
      THEN [ret |-> ParsedValue(store), isArray |-> store.text = "array", store |-> store]
      ELSE [ret |-> generated, isArray |-> TRUE,
            store |-> IF mode = "ok" THEN JSONstringify(generated) ELSE store]

\* handleRegenerateData changed to store what the table shows.
handleRegenerateDataStoresEnriched(store, mode, draws, z, t) ==
  LET newData == generateUsers(draws, t)
  IN  [threw |-> mode # "ok",
       store |-> IF mode = "blocked" THEN store
                 ELSE IF mode = "quota" THEN NoItem
                 ELSE JSONstringify(enrichDataWithComputedFields(newData, z, t)),
       newData |-> newData]

\* handleRegenerateData: clearStoredData(), generateUsers(500), setItem,
\* setData.  Nothing catches an exception here: a throwing removeItem ends
\* the handler at once, a throwing setItem ends it after the removal.
handleRegenerateData(store, mode, draws, z, t) ==
  LET newData == generateUsers(draws, t)
  IN  [threw |-> mode # "ok",
       store |-> IF mode = "blocked" THEN store
                 ELSE IF mode = "quota" THEN NoItem
                 ELSE JSONstringify(newData),
       newData |-> newData]

\* useMemo(() => enrichDataWithComputedFields(rawData), [rawData]) during one
\* render: the held value is kept while rawData is the same array.
UseMemoEnriched(held, dep, rawData, store, z, t) ==
  IF dep = rawData.ref
  THEN [value |-> held, dep |-> dep]
  ELSE [value |-> EnrichCall(rawData.items, store, z, t).ret, dep |-> rawData.ref]

\* Array.prototype.indexOf, counted from 0; -1 when absent.
IndexOf(seq, x) ==
  IF \E i \in 1..Len(seq) : seq[i] = x
  THEN (CHOOSE i \in 1..Len(seq) : seq[i] = x /\ \A j \in 1..(i - 1) : seq[j] # x) - 1
  ELSE -1

\* arrayMove changed to exchange the two columns.
arraySwap(array, from, to) ==
  [i \in 1..Len(array) |->
     IF i - 1 = from THEN array[to + 1]
     ELSE IF i - 1 = to THEN array[from + 1]
     ELSE array[i]]

\* arrayMove changed to write the moved column at its target without taking
\* it out of its old place.
arrayMoveKeepsSource(array, from, to) ==
  [i \in 1..Len(array) |->
     IF i - 1 = (IF to < 0 THEN Len(array) + to ELSE to) THEN array[from + 1] ELSE array[i]]

\* @dnd-kit arrayMove(array, from, to), indices counted from 0:
\*   newArray.splice(to < 0 ? newArray.length + to : to, 0, newArray.splice(from, 1)[0])
\* The target is computed on the whole array; a negative from counts from
\* the end, as splice does.
arrayMove(array, from, to) ==
  LET n == Len(array)
      target == IF to < 0 THEN n + to ELSE to
      source == IF from < 0 THEN n + from ELSE from
      rest == [i \in 1..(n - 1) |-> IF i - 1 < source THEN array[i] ELSE array[i + 1]]
  IN  [i \in 1..n |->
         IF i - 1 < target THEN rest[i]
         ELSE IF i - 1 = target THEN array[source + 1]
         ELSE rest[i - 1]]

\* typeof value === 'string' for the value a row holds in a column.
IsStringValue(col, row) ==
  /\ col \in DOMAIN row
  /\ col # "dsr"
  /\ col = "registeredDate" => row[col].t \in {"date", "str"}

\* The first sort direction TanStack Table picks for a column: ascending
\* when the first row's value is a string, descending otherwise.
FirstSortDir(col, rows) ==
  IF Len(rows) > 0 /\ IsStringValue(col, rows[1]) THEN "asc" ELSE "desc"

\* column.getToggleSortingHandler() for a plain click: unsorted -> first
\* direction -> the other direction -> unsorted; a click on another column
\* replaces the sort.
ToggledSorting(old, col, rows) ==
  LET first == FirstSortDir(col, rows)
      cur == IF Len(old) > 0 /\ old[Len(old)].id = col
             THEN (IF old[Len(old)].desc THEN "desc" ELSE "asc") ELSE "none"
  IN  IF cur = "none" THEN <<[id |-> col, desc |-> first = "desc"]>>
      ELSE IF cur # first THEN <<>>
      ELSE <<[id |-> col, desc |-> cur = "asc"]>>

\* The clicks and drags the user makes.  A drag may end over no target, over
\* the dragged column itself, or over something that is not a column.
SortClicks == {"fullName", "dsr"}
NoTarget == "(none)"
DragEnds == { <<"dsr", "id">>, <<"id", NoTarget>>, <<"city", "city">> }

\* The start of the session: one day of wall-clock time is explored.
SessionStarts == { w + (WindowDays - 1) * MinPerDay : w \in {Utc(2023, 3, 11, 1, 30)} }

\* What an earlier session, a week ago, may have left in localStorage.
EarlierSessions(t) ==
  { generateUsers([i \in 1..GenCount |-> draw], t - 7 * MinPerDay) : draw \in FakerDraws }

\* The time between two events of a session.
SessionStep == 2 * ClockStep

Init ==
  /\ now \in SessionStarts
  /\ tz \in Zones
  /\ storage \in {NoItem} \cup { JSONstringify(c) : c \in EarlierSessions(now) }
  /\ data = [ref |-> "a1", items |-> <<>>]
  /\ isLoading = TRUE
  /\ columnOrder = InitialColumnOrder
  /\ sorting = <<>>
  /\ enrichedData = <<>>
  /\ memoDep = "unmounted"

\* MountEffect changed to leave setIsLoading(false) out.
MountEffectStillLoading(mode, draws) ==
  /\ isLoading
  /\ data.items = <<>>
  /\ \E loaded \in {loadOrGenerateData(storage, mode, draws, now)} :
       /\ storage' = loaded.store
       /\ data' = [ref |-> FreshRef({data.ref}), items |-> loaded.ret]
  /\ UNCHANGED <<now, tz, isLoading, columnOrder, sorting, enrichedData, memoDep>>

\* App's mount effect: loadData(), then the first render of DataTable.
MountEffect(mode, draws) ==
  /\ isLoading
  /\ \E loaded \in {loadOrGenerateData(storage, mode, draws, now)} :
     \E userData \in {[ref |-> FreshRef({data.ref}), items |-> loaded.ret]} :
     \E memo \in {UseMemoEnriched(enrichedData, memoDep, userData, loaded.store, tz, now)} :
       /\ storage' = loaded.store
       /\ data' = userData
       /\ isLoading' = FALSE
       /\ enrichedData' = memo.value
       /\ memoDep' = memo.dep
  /\ UNCHANGED <<now, tz, columnOrder, sorting>>

\* A click on "Regenerate Data", and the render that setData causes.
Regenerate(mode, draws) ==
  /\ ~isLoading
  /\ LET done == handleRegenerateData(storage, mode, draws, tz, now)
         newData == [ref |-> FreshRef({data.ref, memoDep}), items |-> done.newData]
         memo == UseMemoEnriched(enrichedData, memoDep, newData, done.store, tz, now)
     IN  /\ storage' = done.store
         /\ IF done.threw
            THEN UNCHANGED <<data, enrichedData, memoDep>>
            ELSE /\ data' = newData
                 /\ enrichedData' = memo.value
                 /\ memoDep' = memo.dep
  /\ UNCHANGED <<now, tz, isLoading, columnOrder, sorting>>

\* ToggleSorting changed to sort App's array itself, as Array.prototype.sort
\* on rawData would: the records change places.
ToggleSortingInPlace(col) ==
  /\ ~isLoading
  /\ sorting' = ToggledSorting(sorting, col, enrichedData)
  /\ data' = [data EXCEPT !.items = [i \in 1..Len(data.items) |-> data.items[Len(data.items) + 1 - i]]]
  /\ UNCHANGED <<now, tz, storage, isLoading, columnOrder, enrichedData, memoDep>>

\* A click on a column header, and the render that setSorting causes.
ToggleSorting(col) ==
  /\ ~isLoading
  /\ sorting' = ToggledSorting(sorting, col, enrichedData)
  /\ LET memo == UseMemoEnriched(enrichedData, memoDep, data, storage, tz, now)
     IN  /\ enrichedData' = memo.value
         /\ memoDep' = memo.dep
  /\ UNCHANGED <<now, tz, storage, data, isLoading, columnOrder>>

\* handleDragEnd, and the render that setColumnOrder causes.
DragEnd(active, over) ==
  /\ ~isLoading
  /\ IF over # NoTarget /\ active # over
     THEN /\ columnOrder' = arrayMove(columnOrder, IndexOf(columnOrder, active),
                                      IndexOf(columnOrder, over))
          /\ LET memo == UseMemoEnriched(enrichedData, memoDep, data, storage, tz, now)
             IN  /\ enrichedData' = memo.value
                 /\ memoDep' = memo.dep
     ELSE UNCHANGED <<columnOrder, enrichedData, memoDep>>
  /\ UNCHANGED <<now, tz, storage, data, isLoading, sorting>>

\* Time passes; nothing renders.
Tick ==
  /\ InWindow(now + SessionStep)
  /\ now' = now + SessionStep
  /\ UNCHANGED <<tz, storage, data, isLoading, columnOrder, sorting, enrichedData, memoDep>>

Next ==
  \/ \E mode \in StorageModes, draws \in SeqsOfLen(FakerDraws, GenCount) : MountEffect(mode, draws)
  \/ \E mode \in StorageModes, draws \in SeqsOfLen(FakerDraws, GenCount) : Regenerate(mode, draws)
  \/ \E col \in SortClicks : ToggleSorting(col)
  \/ \E d \in DragEnds : DragEnd(d[1], d[2])
  \/ Tick

Spec == Init /\ [][Next]_vars

\* React runs the effect of a mounted component: the mount effect cannot be
\* put off forever.  Nothing obliges the user to click or drag.
FairSpec ==
  Spec /\ WF_vars(\E mode \in StorageModes, draws \in SeqsOfLen(FakerDraws, GenCount) :
                    MountEffect(mode, draws))

---------------------------------------------------------------------------
(* The record source on its own: a caller that calls loadOrGenerateData    *)
(* once, whatever localStorage holds under 'tableData'.                    *)

\* What the key may hold: nothing, the empty text, text that is not JSON,
\* JSON null, an empty array, a number, strings, objects, and the arrays an
\* earlier session wrote.
StoredTexts(t) ==
  { NoItem,
    [text |-> "empty"],
    [text |-> "invalid"],
    [text |-> "null"],
    JSONstringify(<<>>),
    [text |-> "number", value |-> 42],
    [text |-> "string", value |-> ""],
    [text |-> "string", value |-> "abc"],
    [text |-> "object", props |-> [total |-> 2]],
    [text |-> "object", props |-> [length |-> 2]] }
  \cup { JSONstringify(c) : c \in EarlierSessions(t) }

LoadInit ==
  /\ now \in WindowStarts
  /\ tz \in Zones
  /\ storage \in StoredTexts(now)
  /\ data = [ref |-> "a1", items |-> <<>>]
  /\ isLoading = TRUE
  /\ columnOrder = InitialColumnOrder
  /\ sorting = <<>>
  /\ enrichedData = <<>>
  /\ memoDep = "unmounted"

\* const userData = loadOrGenerateData(count); nothing is rendered.
LoadCall(mode, draws) ==
  /\ isLoading
  /\ LET loaded == loadOrGenerateData(storage, mode, draws, now)
     IN  /\ storage' = loaded.store
         /\ data' = [ref |-> FreshRef({data.ref}), items |-> loaded.ret]
  /\ isLoading' = FALSE
  /\ UNCHANGED <<now, tz, columnOrder, sorting, enrichedData, memoDep>>

LoadNext == \E mode \in StorageModes, draws \in SeqsOfLen(FakerDraws, GenCount) : LoadCall(mode, draws)

LoadSpec == LoadInit /\ [][LoadNext]_vars

---------------------------------------------------------------------------
(* Column reordering on its own: the table is mounted and the user does    *)
(* nothing but drag column headers.                                        *)

ColumnIds == { InitialColumnOrder[i] : i \in 1..Len(InitialColumnOrder) }

\* The headers the user picks up, and where a drag may end: over any header,
\* over nothing, or over something that is not a column.
DragSources == {"id", "fullName", "registeredDate", "dsr"}
DropTargets == ColumnIds \cup {NoTarget, "toolbar"}

DragInit ==
  /\ now \in SessionStarts
  /\ tz = "UTC"
  /\ \E c \in EarlierSessions(now) :
       /\ c[1].firstName = "John"
       /\ data = [ref |-> "a2", items |-> c]
  /\ storage = JSONstringify(data.items)
  /\ isLoading = FALSE
  /\ columnOrder = InitialColumnOrder
  /\ sorting = <<>>
  /\ enrichedData = enrichDataWithComputedFields(data.items, tz, now)
  /\ memoDep = data.ref

DragNext == \E active \in DragSources, over \in DropTargets : DragEnd(active, over)

DragSpec == DragInit /\ [][DragNext]_vars

---------------------------------------------------------------------------
(* Properties of the engine, checked under EngineSpec.                     *)

BaseFields == {"id", "firstName", "lastName", "email", "city", "registeredDate"}
DerivedFields == {"fullName", "dsr"}

\* The rows the caller holds and the rows the last call returned, by index.
Rows == 1..Len(data.items)

\* How many calendar days the registration date lies before the local
\* calendar date of instant t.
CalendarDaysBefore(date, z, t) == LocalDay(z, t) - DaysFromCivil(date.y, date.m, date.d)

HasDate(i) == Truthy(RegisteredDateOf(data.items[i]))

\* The call that produced enrichedData was made after the clock had advanced.
EnrichedLater == now \notin WindowStarts

\* C1: a registration date N >= 0 calendar days before the local date of
\* 'now' gives dsr = N, in every zone and at every time of day.
C1_DsrIsCalendarDays ==
  \A i \in Rows :
    HasDate(i) /\ CalendarDaysBefore(data.items[i].registeredDate, tz, now) >= 0
      => enrichedData[i].dsr = CalendarDaysBefore(data.items[i].registeredDate, tz, now)

\* C2: every enriched record's fullName is its firstName, one space, its
\* lastName, for empty names too: nothing is trimmed, folded or collapsed.
C2_FullNameIsConcatenation ==
  /\ Len(enrichedData) = Len(data.items)
  /\ \A i \in Rows :
       /\ enrichedData[i].fullName = data.items[i].firstName \o " " \o data.items[i].lastName
       /\ Len(enrichedData[i].fullName) = Len(data.items[i].firstName) + 1 + Len(data.items[i].lastName)

C2_Witness ==
  /\ EnrichedLater
  /\ \E i \in Rows : data.items[i].firstName = "" /\ enrichedData[i].fullName = " Berg"

\* C3: the output has as many records as the input, in the same order, and
\* each output record has its input record's base fields.
C3_OrderAndLengthPreserved ==
  /\ Len(enrichedData) = Len(data.items)
  /\ \A i \in Rows : \A k \in BaseFields :
       /\ k \in DOMAIN enrichedData[i] <=> k \in DOMAIN data.items[i]
       /\ k \in DOMAIN data.items[i] => enrichedData[i][k] = data.items[i][k]

C3_Witness ==
  /\ EnrichedLater
  /\ Len(data.items) = 2
  /\ data.items[1].id # data.items[2].id
  /\ enrichedData[1].id = data.items[1].id

\* C4: a call of the engine leaves the caller's collection and the stored
\* text as they were, and no record of the caller has gained fullName or dsr.
C4_EnrichHasNoSideEffects ==
  [][/\ data' = data
     /\ storage' = storage
     /\ \A i \in 1..Len(data'.items) : DOMAIN data'.items[i] \cap DerivedFields = {}]_vars

C4_Witness ==
  /\ EnrichedLater
  /\ storage # NoItem
  /\ Len(data.items) = 2
  /\ DerivedFields \subseteq DOMAIN enrichedData[1]

\* C7: a falsy or missing registration date gives dsr = 0 at every instant.
C7_FalsyDateGivesZero ==
  \A i \in Rows : ~HasDate(i) => enrichedData[i].dsr = 0

C7_Witness ==
  /\ EnrichedLater
  /\ \E i \in Rows : "registeredDate" \notin DOMAIN data.items[i] /\ enrichedData[i].dsr = 0

\* The record was made by generateUser at the start of the window.
IsGenerated(row) ==
  \E w \in WindowStarts : w <= now /\ InWindow(now) /\ now <= w + WindowDays * MinPerDay
     /\ \E draw \in FakerDraws : row = generateUser(draw, 1, w)

\* C8: dsr is never negative for a registration date on or before the local
\* date of 'now', nor for a record generateUser made at or before 'now'.
C8_DsrNeverNegative ==
  \A i \in Rows :
    \/ (HasDate(i) /\ CalendarDaysBefore(data.items[i].registeredDate, tz, now) >= 0)
    \/ IsGenerated(data.items[i])
    => enrichedData[i].dsr >= 0

\* A generated record whose UTC registration date is ahead of the local date.
C8_Witness ==
  /\ EnrichedLater
  /\ \E i \in Rows :
       /\ IsGenerated(data.items[i])
       /\ CalendarDaysBefore(data.items[i].registeredDate, tz, now) >= 0
       /\ \E w \in WindowStarts : CalendarDaysBefore(data.items[i].registeredDate, tz, w) < 0

\* C9: a registration date after the local date of 'now' gives a negative dsr.
C9_FutureDateIsNegative ==
  \A i \in Rows :
    HasDate(i) /\ CalendarDaysBefore(data.items[i].registeredDate, tz, now) < 0
      => enrichedData[i].dsr < 0

\* C10: from one call to the next, dsr grows by exactly the number of local
\* midnights the clock has crossed: by 0 within a day, by 1 across a midnight.
C10_DsrFollowsMidnights ==
  [][\A i \in Rows :
       HasDate(i) => enrichedData'[i].dsr - enrichedData[i].dsr = LocalDay(tz, now') - LocalDay(tz, now)]_vars

\* The instants around 'now', a clock step apart, that fall in the local
\* calendar day of 'now'.
SameDayInstants ==
  LET steps == MinPerDay \div ClockStep
  IN  { t \in { now + k * ClockStep : k \in (0 - steps)..steps } :
          LocalDay(tz, t) = LocalDay(tz, now) }

\* C14: a call made at any other instant of the same local calendar day
\* returns the fullName and dsr that the call at 'now' returned, and a call
\* made after that one, on the collection the first was handed, returns what
\* the call at 'now' returned.
C14_SameDaySameResult ==
  \A t \in SameDayInstants :
    LET other == EnrichCall(data.items, storage, tz, t)
        again == EnrichCall(other.rawData, other.store, tz, now)
    IN  /\ Len(other.ret) = Len(enrichedData)
        /\ \A i \in Rows :
             /\ other.ret[i].fullName = enrichedData[i].fullName
             /\ other.ret[i].dsr = enrichedData[i].dsr
        /\ again.ret = enrichedData

\* West of Greenwich, where the local day spans a UTC midnight: a dated
\* record enriched at several instants of one local day.
C14_Witness ==
  /\ EnrichedLater
  /\ tz = "America/New_York"
  /\ \E t \in SameDayInstants : t \div MinPerDay # now \div MinPerDay
  /\ \E i \in Rows : HasDate(i) /\ enrichedData[i].dsr > 0

---------------------------------------------------------------------------
(* Properties of the application, checked under Spec.                      *)

\* The property names of the records written in a stored text.
StoredKeys(text) ==
  IF text.text # "array" THEN {}
  ELSE UNION { { text.elems[i][j][1] : j \in 1..Len(text.elems[i]) } : i \in 1..Len(text.elems) }

\* C5: no record of App's data and no record of the text stored under
\* 'tableData' carries fullName or dsr, whatever the user has done.
C5_DerivedNeverPersisted ==
  /\ \A i \in Rows : DOMAIN data.items[i] \cap DerivedFields = {}
  /\ StoredKeys(storage) \cap DerivedFields = {}

\* After a regenerate, with a sort and a column drag made and the clock
\* advanced: the table holds the computed fields, the stored text does not.
C5_Witness ==
  /\ ~isLoading
  /\ now \notin SessionStarts
  /\ sorting # <<>>
  /\ columnOrder # InitialColumnOrder
  /\ Len(data.items) = GenCount
  /\ storage = JSONstringify(data.items)
  /\ BaseFields \subseteq StoredKeys(storage)
  /\ \A i \in Rows : DerivedFields \subseteq DOMAIN enrichedData[i]

\* A step in which React state changed: the step ends with a render.
Rendered ==
  \/ data' # data
  \/ isLoading' # isLoading
  \/ sorting' # sorting
  \/ columnOrder' # columnOrder

\* C6: at every render the rows handed to the table are the enrichment of
\* the current collection at the current date.
C6_RenderShowsCurrentEnrichment ==
  [][Rendered => enrichedData' = enrichDataWithComputedFields(data'.items, tz', now')]_vars

\* C11: a setItem that throws is contained at both write sites.  A mount
\* whose load has to generate and a click on "Regenerate Data", each with a
\* throwing setItem, raise nothing and end with the generated collection as
\* App's data.
C11_FailedWriteIsContained ==
  [][\A draws \in SeqsOfLen(FakerDraws, GenCount) :
       /\ MountEffect("quota", draws) /\ storage = NoItem
            => data'.items = generateUsers(draws, now)
       /\ Regenerate("quota", draws)
            => /\ ~handleRegenerateData(storage, "quota", draws, tz, now).threw
               /\ data'.items = generateUsers(draws, now)]_vars

\* The records carry the names of these faker draws, in order.
DrawnBy(items, draws) ==
  /\ Len(items) = Len(draws)
  /\ \A i \in 1..Len(draws) : items[i].firstName = draws[i].first /\ items[i].lastName = draws[i].last

\* C13: when localStorage works, a startup load or a regenerate (each hands
\* setData a new array) leaves the stored text equal to the serialisation
\* of App's data, a regenerate leaves the collection it generated, and the
\* load of a later session returns that same collection, record for record,
\* and stores nothing new.
C13_LastWriteWins ==
  [][data'.ref # data.ref =>
       \A draws \in SeqsOfLen(FakerDraws, GenCount) :
         \/ MountEffect("ok", draws)
         \/ DrawnBy(data'.items, draws) /\ Regenerate("ok", draws)
         =>
         /\ storage' = JSONstringify(data'.items)
         /\ ~isLoading => data'.items = generateUsers(draws, now)
         /\ \A draw \in FakerDraws :
              LET later == [i \in 1..GenCount |-> draw]
                  next == loadOrGenerateData(storage', "ok", later, now' + MinPerDay)
              IN  /\ next.isArray
                  /\ next.ret = data'.items
                  /\ next.store = storage']_vars

\* A regenerate has replaced the collection the mount loaded, and a later
\* load would return it.
C13_Witness ==
  /\ ~isLoading
  /\ data.ref = "a1"
  /\ Len(data.items) = GenCount
  /\ data.items[1].id # data.items[GenCount].id
  /\ storage = JSONstringify(data.items)
  /\ loadOrGenerateData(storage, "ok", [i \in 1..GenCount |-> CHOOSE d \in FakerDraws : TRUE],
                        now + MinPerDay).ret = data.items

\* C15: for every column that is clicked, computed ones included, a click
\* on the header of an unsorted table sorts by that column ascending, a click
\* on the column sorted ascending sorts it descending, and a click on the
\* column sorted descending removes the sort, which hands the rows back in
\* the collection's order.
C15_ThreeStateSorting ==
  [][\A col \in SortClicks :
       ToggleSorting(col) =>
         /\ sorting = <<>> => sorting' = <<[id |-> col, desc |-> FALSE]>>
         /\ sorting = <<[id |-> col, desc |-> FALSE]>> => sorting' = <<[id |-> col, desc |-> TRUE]>>
         /\ sorting = <<[id |-> col, desc |-> TRUE]>> => sorting' = <<>>]_vars

\* C18: a sort toggle or a drag-end, with the render it causes, leaves
\* App's data and the stored text exactly as they were; a step that changes
\* either is the mount effect or a regenerate; and a regenerate that changes
\* the data hands over a new array rather than the old one edited.
C18_PersistedChangesOnlyByLoadAndRegenerate ==
  [][/\ \A col \in SortClicks :
          ToggleSorting(col) => data' = data /\ storage' = storage
     /\ \A d \in DragEnds :
          DragEnd(d[1], d[2]) => data' = data /\ storage' = storage
     /\ data' # data \/ storage' # storage =>
          \E mode \in StorageModes, draws \in SeqsOfLen(FakerDraws, GenCount) :
            \/ MountEffect(mode, draws)
            \/ (data' # data => DrawnBy(data'.items, draws)) /\ Regenerate(mode, draws)
     /\ ~isLoading /\ data' # data =>
          /\ data'.ref # data.ref
          /\ \E draws \in SeqsOfLen(FakerDraws, GenCount) :
               DrawnBy(data'.items, draws) /\ data'.items = generateUsers(draws, now)]_vars

\* The loaded collection is still in place, in memory and in storage, after
\* a sort, a drag and a change of date.
C18_Witness ==
  /\ ~isLoading
  /\ now \notin SessionStarts
  /\ sorting = <<[id |-> "fullName", desc |-> TRUE]>>
  /\ columnOrder[1] = "dsr"
  /\ data.ref = "a2"
  /\ Len(data.items) = GenCount
  /\ data.items[1].id # data.items[GenCount].id
  /\ storage = JSONstringify(data.items)

\* C19: App starts loading with an empty collection, and from some point on
\* isLoading is false for good, however localStorage behaved during the load.
C19_LoadingEnds ==
  /\ isLoading = TRUE /\ data.items = <<>>
  /\ <>[](isLoading = FALSE)

\* The mount effect has run with localStorage blocked: the spinner is gone
\* and the table shows the generated rows.
C19_Witness ==
  /\ ~isLoading
  /\ storage = NoItem
  /\ sorting = <<>>
  /\ columnOrder = InitialColumnOrder
  /\ Len(data.items) = GenCount
  /\ Len(enrichedData) = GenCount

---------------------------------------------------------------------------
(* Properties of the record source, checked under LoadSpec.                *)

\* C12: whatever the key holds and however localStorage behaves, the call
\* returns an array: the stored array when that is a non-empty array that
\* could be read, and otherwise the freshly generated array of count records.
C12_LoadReturnsRecords ==
  [][\A mode \in StorageModes, draws \in SeqsOfLen(FakerDraws, GenCount) :
       LoadCall(mode, draws) =>
         LET loaded == loadOrGenerateData(storage, mode, draws, now)
         IN  /\ loaded.isArray
             /\ \/ /\ mode # "blocked"
                   /\ storage.text = "array"
                   /\ Len(storage.elems) > 0
                   /\ loaded.ret = JSONparse(storage)
                \/ /\ loaded.ret = generateUsers(draws, now)
                   /\ Len(loaded.ret) = GenCount]_vars

---------------------------------------------------------------------------
(* Properties of column reordering, checked under DragSpec.                *)

\* A sequence with every occurrence of x left out.
Without(seq, x) == SelectSeq(seq, LAMBDA c : c # x)

\* C16: a drag of one header that ends over another header puts the dragged
\* column at the index the other column had, and the remaining seven
\* columns stay in the order they were in.
C16_DropLandsOnTarget ==
  [][\A active \in DragSources, over \in ColumnIds :
       active # over /\ DragEnd(active, over) =>
         /\ IndexOf(columnOrder', active) = IndexOf(columnOrder, over)
         /\ Without(columnOrder', active) = Without(columnOrder, active)]_vars

\* After drags in both directions: the last column is first, the first is
\* last, and the rest are as they were.
C16_Witness ==
  /\ columnOrder[1] = "dsr"
  /\ columnOrder[Len(columnOrder)] = "id"
  /\ Without(Without(columnOrder, "dsr"), "id") = Without(Without(InitialColumnOrder, "dsr"), "id")

\* C17: columnOrder always holds the eight column ids, each exactly once.
C17_OrderIsPermutation ==
  /\ Len(columnOrder) = Len(InitialColumnOrder)
  /\ \A c \in ColumnIds : Cardinality({ i \in 1..Len(columnOrder) : columnOrder[i] = c }) = 1

\* A drag has ended over something that is not a column: the dragged
\* column is now last.
C17_Witness ==
  /\ columnOrder # InitialColumnOrder
  /\ columnOrder[Len(columnOrder)] = "fullName"
  /\ Without(columnOrder, "fullName") = Without(InitialColumnOrder, "fullName")

=============================================================================
